---- MODULE Spec2Model ----
(***************************************************************************)
(* Model of colradpy/solve_matrix_exponential.py: the three entry points   *)
(* solve_matrix_exponential, solve_matrix_exponential_steady_state and     *)
(* solve_matrix_exponential_source, computed in exact arithmetic.          *)
(*                                                                         *)
(* Numbers.  A scalar is a rational <<n, d>> in lowest terms with d > 0.   *)
(* A time-dependent quantity is a finite sum  SUM_x c_x * e^x  over        *)
(* integer exponents x, kept as the function x |-> c_x; the numbers e^x    *)
(* for distinct integers x are linearly independent over the rationals,    *)
(* so two such sums are the same real number iff the functions are equal.  *)
(*                                                                         *)
(* Arrays.  A numpy array is [shape |-> <<d1,...,dn>>, at |-> f] where f   *)
(* maps 0-based index tuples to entries.                                   *)
(***************************************************************************)
EXTENDS Integers, Sequences, FiniteSets

\* ---------------------------------------------------------------- bounds
NS == 2
NK == 1
NL == 2
MaxEig == 1
MaxT == 2

\* ------------------------------------------------------------- rationals
Abs(x) == IF x < 0 THEN -x ELSE x

RECURSIVE Gcd(_, _)
Gcd(a, b) == IF b = 0 THEN a ELSE Gcd(b, a % b)

Rat(n, d) ==
  LET s == IF d < 0 THEN -1 ELSE 1
      g == Gcd(Abs(n), Abs(d))
  IN  <<(s * n) \div g, (s * d) \div g>>

RZero == <<0, 1>>
ROne == <<1, 1>>
RInt(n) == <<n, 1>>
RAdd(a, b) ==
  IF a[2] = 1 /\ b[2] = 1 THEN <<a[1] + b[1], 1>>
  ELSE Rat(a[1] * b[2] + b[1] * a[2], a[2] * b[2])
RNeg(a) == <<-a[1], a[2]>>
RSub(a, b) == RAdd(a, RNeg(b))
RMul(a, b) ==
  IF a[2] = 1 /\ b[2] = 1 THEN <<a[1] * b[1], 1>>
  ELSE Rat(a[1] * b[1], a[2] * b[2])
RDiv(a, b) == Rat(a[1] * b[2], a[2] * b[1])
RAbs(a) == <<Abs(a[1]), a[2]>>
RLess(a, b) == a[1] * b[2] < b[1] * a[2]

\* f[0] + ... + f[n-1]
RECURSIVE RSum(_, _)
RSum(f, n) == IF n = 0 THEN RZero ELSE RAdd(RSum(f, n - 1), f[n - 1])

\* ------------------------------------------- sums of exponentials  c*e^x
ExpDom == (-(MaxEig * MaxT))..0

TConst(r) == [x \in ExpDom |-> IF x = 0 THEN r ELSE RZero]
TZero == TConst(RZero)
\* np.exp(q) for an integer q
NpExp(q) == [x \in ExpDom |-> IF x = q[1] THEN ROne ELSE RZero]
TAdd(p, q) == [x \in ExpDom |-> RAdd(p[x], q[x])]
TSub(p, q) == [x \in ExpDom |-> RSub(p[x], q[x])]
TScale(r, p) == [x \in ExpDom |-> RMul(r, p[x])]

RECURSIVE TSum(_, _)
TSum(f, n) == IF n = 0 THEN TZero ELSE TAdd(TSum(f, n - 1), f[n - 1])

\* ---------------------------------------------------------------- arrays
\* an array; the comparison forces the entries to be evaluated once
Evaluated(f) == IF f = f THEN f ELSE f
Arr(shape, f) == [shape |-> shape, at |-> Evaluated(f)]

RECURSIVE IndexSet(_)
IndexSet(shape) ==
  CASE Len(shape) = 0 -> {<<>>}
    [] Len(shape) = 1 -> {<<i>> : i \in 0..(shape[1] - 1)}
    [] Len(shape) = 2 -> (0..(shape[1] - 1)) \X (0..(shape[2] - 1))
    [] Len(shape) = 3 -> (0..(shape[1] - 1)) \X (0..(shape[2] - 1)) \X (0..(shape[3] - 1))
    [] Len(shape) = 4 ->
         (0..(shape[1] - 1)) \X (0..(shape[2] - 1)) \X (0..(shape[3] - 1))
           \X (0..(shape[4] - 1))
    [] OTHER ->
         {<<i>> \o r : i \in 0..(shape[1] - 1), r \in IndexSet(Tail(shape))}

\* a.transpose(axes): axis m of the result is axis axes[m] of a (0-based)
Transpose(a, axes) ==
  LET n == Len(a.shape)
      shp == [m \in 1..n |-> a.shape[axes[m] + 1]]
      back == Evaluated([m \in 1..n |-> CHOOSE i \in 1..n : axes[i] + 1 = m])
  IN  Arr(shp, [ix \in IndexSet(shp) |-> a.at[[m \in 1..n |-> ix[back[m]]]]])

Front(s) == SubSeq(s, 1, Len(s) - 1)
Front2(s) == SubSeq(s, 1, Len(s) - 2)
Last(s) == s[Len(s)]

\* ------------------------------------------------------- call outcomes
Return(pop, w, v) ==
  [status |-> "return", pop |-> pop, eigenvals |-> w, eigenvectors |-> v]
Raise(e) == [status |-> "raise", error |-> e]

\* ------------------------------------------------------ numpy.linalg
Range0(n) == [m \in 1..n |-> m - 1]
RemoveAt(s, c) == SubSeq(s, 1, c - 1) \o SubSeq(s, c + 1, Len(s))

\* determinant of the minor of A on the given rows and columns (Laplace
\* expansion along the first row)
RECURSIVE Det(_, _, _)
Det(A, rows, cols) ==
  IF rows = <<>> THEN ROne
  ELSE LET term(c) ==
             LET m == RMul(A[<<rows[1], cols[c]>>],
                           Det(A, Tail(rows), RemoveAt(cols, c)))
             IN  IF c % 2 = 1 THEN m ELSE RNeg(m)
       IN  RSum([c0 \in 0..(Len(cols) - 1) |-> term(c0 + 1)], Len(cols))

\* inverse of one n x n matrix A (a function on <<i, j>>), det(A) # 0
MatInv(A, n) ==
  LET d == Det(A, Range0(n), Range0(n))
  IN  Evaluated([ij \in (0..(n - 1)) \X (0..(n - 1)) |->
         LET c == Det(A, RemoveAt(Range0(n), ij[2] + 1), RemoveAt(Range0(n), ij[1] + 1))
         IN  RDiv(IF (ij[1] + ij[2]) % 2 = 0 THEN c ELSE RNeg(c), d)])

\* the square matrix of batch element b of a stack a of shape [..., n, n]
Block(a, b) ==
  LET n == Last(a.shape)
  IN  Evaluated([ij \in (0..(n - 1)) \X (0..(n - 1)) |-> a.at[b \o ij]])

\* np.linalg.inv raises LinAlgError when some matrix of the stack is singular
Singular(a) ==
  LET n == Last(a.shape)
  IN  \E b \in IndexSet(Front2(a.shape)) :
        Det(Block(a, b), Range0(n), Range0(n)) = RZero

\* np.linalg.inv(a) for a stack a of shape [..., n, n]
LinalgInv(a) ==
  LET n == Last(a.shape)
      inv == Evaluated([b \in IndexSet(Front2(a.shape)) |-> MatInv(Block(a, b), n)])
  IN  Arr(a.shape, [ix \in IndexSet(a.shape) |->
                      inv[Front2(ix)][<<ix[Len(ix) - 1], ix[Len(ix)]>>]])

\* np.linalg.eig(a) for a stack a of shape [..., n, n].  lapack[b] is the
\* eigensystem [w |-> eigenvalues, v |-> eigenvectors (columns)] that the
\* eigensolver produces for the matrix of batch element b.
LinalgEig(a, lapack) ==
  LET n == Last(a.shape)
      wshape == Front(a.shape)
  IN  [w |-> Arr(wshape, [ix \in IndexSet(wshape) |-> lapack[Front(ix)].w[Last(ix)]]),
       v |-> Arr(a.shape, [ix \in IndexSet(a.shape) |->
                             lapack[Front2(ix)].v[<<ix[Len(ix) - 1], ix[Len(ix)]>>]])]

NpDotFirstAxis(a, x) ==
  LET n == Last(a.shape)
      shp == Front(a.shape)
  IN  Arr(shp, [ix \in IndexSet(shp) |->
                  RSum([j \in 0..(n - 1) |->
                          RMul(a.at[Front(ix) \o <<j, Last(ix)>>], x.at[<<j>>])], n)])
\* np.dot(a, x) for a of shape [..., n, n] and a vector x of shape [n]:
\* the sum over the last axis of a and x
NpDot(a, x) ==
  LET n == Last(a.shape)
      shp == Front(a.shape)
  IN  Arr(shp, [ix \in IndexSet(shp) |->
                  RSum([j \in 0..(n - 1) |-> RMul(a.at[ix \o <<j>>], x.at[<<j>>])], n)])

\* np.einsum('klij,kljt->itkl', a, b).  The operands' j axes must agree or
\* one of them must have length 1 (a length-1 axis is broadcast).
EinsumFits(a, b) ==
  a.shape[4] = b.shape[3] \/ a.shape[4] = 1 \/ b.shape[3] = 1

Einsum_klji_kljt_itkl(a, b) ==
  LET nj == b.shape[3]
      shp == <<a.shape[3], b.shape[4], a.shape[1], a.shape[2]>>
  IN  Arr(shp, [ix \in IndexSet(shp) |->
         TSum([j \in 0..(nj - 1) |->
                 TScale(a.at[<<ix[3], ix[4], j, ix[1]>>],
                        b.at[<<ix[3], ix[4], j, ix[2]>>])], nj)])
Einsum_klij_kljt_itkl(a, b) ==
  LET nj == IF a.shape[4] > b.shape[3] THEN a.shape[4] ELSE b.shape[3]
      ja(j) == IF a.shape[4] = 1 THEN 0 ELSE j
      jb(j) == IF b.shape[3] = 1 THEN 0 ELSE j
      shp == <<a.shape[3], b.shape[4], a.shape[1], a.shape[2]>>
  IN  Arr(shp, [ix \in IndexSet(shp) |->
         TSum([j \in 0..(nj - 1) |->
                 TScale(a.at[<<ix[3], ix[4], ix[1], ja(j)>>],
                        b.at[<<ix[3], ix[4], jb(j), ix[2]>>])], nj)])

\* ------------------------------------------ solve_matrix_exponential
solve_matrix_exponential(matrix, td_n0, td_t, lapack) ==
  LET e == LinalgEig(Transpose(matrix, <<2, 3, 0, 1>>), lapack)
      eigenvals == e.w
      eigenvectors == e.v
      v0 == NpDot(LinalgInv(eigenvectors), td_n0)
      vtshape == eigenvals.shape \o td_t.shape
      vt == Arr(vtshape, [ix \in IndexSet(vtshape) |->
              TScale(v0.at[Front(ix)],
                     NpExp(RMul(eigenvals.at[Front(ix)], td_t.at[<<Last(ix)>>])))])
      td_pop == Einsum_klij_kljt_itkl(eigenvectors, vt)
  IN  IF Singular(eigenvectors) THEN Raise("LinAlgError")
      ELSE Return(td_pop, Transpose(eigenvals, <<2, 0, 1>>),
                  Transpose(eigenvectors, <<2, 3, 0, 1>>))

\* ------------------------------ solve_matrix_exponential_steady_state
\* np.abs(w).argsort(axis) along the last axis: entry s is the index of the
\* (s+1)-th smallest |w|; equal keys stay in index order (the sort of a
\* short axis is an insertion sort).
Argsort(w) ==
  LET n == Last(w.shape)
      before(b, j) ==
        Cardinality({i \in 0..(n - 1) :
           \/ RLess(w.at[b \o <<i>>], w.at[b \o <<j>>])
           \/ w.at[b \o <<i>>] = w.at[b \o <<j>>] /\ i < j})
  IN  Arr(w.shape, [ix \in IndexSet(w.shape) |->
         CHOOSE j \in 0..(n - 1) : before(Front(ix), j) = Last(ix)])
AbsArgsort(w) ==
  LET n == Last(w.shape)
      before(b, j) ==
        Cardinality({i \in 0..(n - 1) :
           \/ RLess(RAbs(w.at[b \o <<i>>]), RAbs(w.at[b \o <<j>>]))
           \/ RAbs(w.at[b \o <<i>>]) = RAbs(w.at[b \o <<j>>]) /\ i < j})
  IN  Arr(w.shape, [ix \in IndexSet(w.shape) |->
         CHOOSE j \in 0..(n - 1) : before(Front(ix), j) = Last(ix)])

\* a[index] for index = np.ix_(arange(d1), ..., arange(dm)) with its last
\* entry replaced by order (shape [d1, ..., dm]); a has m or m+1 axes.  The
\* list of index arrays is used as a tuple of index arrays.
PlainIndex(a, order) == a
FancyIndex(a, order) ==
  LET m == Len(order.shape)
  IN  Arr(a.shape, [ix \in IndexSet(a.shape) |->
         a.at[SubSeq(ix, 1, m - 1) \o <<order.at[SubSeq(ix, 1, m)]>>
                \o SubSeq(ix, m + 1, Len(ix))]])

\* line 77 when neither branch of lines 68-74 ran: eigenvectors is read but
\* was never assigned
unassigned_eigenvectors_default(matrix) ==
  Return(Arr(<<matrix.shape[1]>>, [ix \in IndexSet(<<matrix.shape[1]>>) |-> RZero]),
         Arr(<<0>>, <<>>), Arr(<<0>>, <<>>))
unassigned_eigenvectors(matrix) == Raise("UnboundLocalError")

solve_matrix_exponential_steady_state(matrix, lapack) ==
  LET rank == Len(matrix.shape)
  IN  IF rank = 0 THEN Raise("IndexError")
      ELSE IF rank \notin {3, 4} THEN unassigned_eigenvectors(matrix)
      ELSE
        LET td_n0 == Arr(<<matrix.shape[1]>>,
                         [ix \in IndexSet(<<matrix.shape[1]>>) |->
                            IF ix[1] = 0 THEN ROne ELSE RZero])
            e == IF rank = 4
                 THEN LinalgEig(Transpose(matrix, <<2, 3, 0, 1>>), lapack)
                 ELSE LinalgEig(Transpose(matrix, <<2, 0, 1>>), lapack)
            eigenvals == e.w
            eigenvectors == e.v
            v0 == NpDot(LinalgInv(eigenvectors), td_n0)
            order == AbsArgsort(eigenvals)
            ev == IF rank = 4
                  THEN FancyIndex(Transpose(eigenvectors, <<0, 1, 3, 2>>), order)
                  ELSE FancyIndex(Transpose(eigenvectors, <<0, 2, 1>>), order)
            v0s == FancyIndex(v0, order)
            \* einsum('kl,klj->klj', v0[index][:,:,0], ev[:,:,0,:])
            prod == Arr(eigenvals.shape, [ix \in IndexSet(eigenvals.shape) |->
                      RMul(v0s.at[Front(ix) \o <<0>>],
                           ev.at[Front(ix) \o <<0, Last(ix)>>])])
            ss_pop == IF rank = 4 THEN Transpose(prod, <<2, 0, 1>>)
                      ELSE Transpose(prod, <<1, 0>>)
        IN  IF Singular(eigenvectors) THEN Raise("LinAlgError")
            ELSE Return(ss_pop, eigenvals, eigenvectors)

\* ------------------------------------ solve_matrix_exponential_source
\* the index tuples of an array of the given shape, in C (row-major) order
RECURSIVE COrder(_)
COrder(shape) ==
  IF shape = <<>> THEN << <<>> >>
  ELSE LET rest == COrder(Tail(shape))
           nr == Len(rest)
       IN  [m \in 1..(shape[1] * nr) |->
              <<(m - 1) \div nr>> \o rest[((m - 1) % nr) + 1]]

\* np.where(w == 0): one index sequence per axis, the hits in C order
NpWhereZero(w) ==
  LET hits == SelectSeq(COrder(w.shape), LAMBDA ix : w.at[ix] = RZero)
  IN  [ax \in 1..Len(w.shape) |-> [m \in 1..Len(hits) |-> hits[m][ax]]]

\* every index held by obj, a tuple of index sequences that np.delete turns
\* into one 2-D index array
AllIndices(obj) == {obj[ax][m] : ax \in 1..Len(obj), m \in 1..Len(obj[1])}

\* the s-th smallest element (s = 0, 1, ...) of a finite set of integers
NthOf(S, s) == CHOOSE x \in S : Cardinality({y \in S : y < x}) = s

\* np.delete(arr, obj, axis): keep = ones(N); keep[obj,] = False; arr[..keep..]
DeleteFits(arr, obj, axis) ==
  \A x \in AllIndices(obj) : x < arr.shape[axis + 1]

NpDelete(arr, obj, axis) ==
  LET N == arr.shape[axis + 1]
      keep == (0..(N - 1)) \ AllIndices(obj)
      shp == [arr.shape EXCEPT ![axis + 1] = Cardinality(keep)]
  IN  Arr(shp, [ix \in IndexSet(shp) |->
                  arr.at[[ix EXCEPT ![axis + 1] = NthOf(keep, ix[axis + 1])]]])

\* np.insert(arr, obj, values, axis) for a 1-D index sequence obj.
\* One index: the block of values goes in front of position obj[1], which
\* must not exceed N.  Otherwise the indices are shifted by their rank in a
\* stable sort and mark the positions of the new entries; every position
\* must lie inside the enlarged axis.
InsertAt(obj) ==
  [m \in 1..Len(obj) |->
     obj[m] + Cardinality({i \in 1..Len(obj) :
                             obj[i] < obj[m] \/ (obj[i] = obj[m] /\ i < m)})]

InsertFits(arr, obj, axis) ==
  LET N == arr.shape[axis + 1]
  IN  IF Len(obj) = 1 THEN obj[1] <= N
      ELSE \A m \in 1..Len(obj) : InsertAt(obj)[m] < N + Len(obj)

NpInsert(arr, obj, values, axis) ==
  LET N == arr.shape[axis + 1]
      n == values.shape[axis + 1]
      shp == [arr.shape EXCEPT ![axis + 1] = N + n]
      at == InsertAt(obj)
      new == {at[m] : m \in 1..Len(obj)}
      old(x) == Cardinality({y \in 0..(x - 1) : y \notin new})
  IN  IF Len(obj) = 1
      THEN Arr(shp, [ix \in IndexSet(shp) |->
             LET x == ix[axis + 1]
             IN  IF x < obj[1] THEN arr.at[ix]
                 ELSE IF x < obj[1] + n
                      THEN values.at[[ix EXCEPT ![axis + 1] = x - obj[1]]]
                      ELSE arr.at[[ix EXCEPT ![axis + 1] = x - n]]])
      ELSE Arr(shp, [ix \in IndexSet(shp) |->
             LET x == ix[axis + 1]
             IN  IF x \in new
                 THEN values.at[[ix EXCEPT ![axis + 1] =
                                   (CHOOSE m \in 1..Len(obj) : at[m] = x) - 1]]
                 ELSE arr.at[[ix EXCEPT ![axis + 1] = old(x)]]])

\* lines 118-132: the mode amplitudes v handed to the reconstruction, with
\* the quantities they are built from
source_modes(matrix, td_n0, source, td_t, lapack) ==
  LET e == LinalgEig(Transpose(matrix, <<2, 3, 0, 1>>), lapack)
      eigenvals == e.w
      eigenvectors == e.v
      inv == LinalgInv(eigenvectors)
      CC == NpDot(inv, source)
      V0 == NpDot(inv, td_n0)
      eig_zero_ind == NpWhereZero(eigenvals)
      eig_non_zero == NpDelete(eigenvals, eig_zero_ind, 2)
      CC_non == NpDelete(CC, eig_zero_ind, 2)
      V0_non == NpDelete(V0, eig_zero_ind, 2)
      amplitude_non ==
        Arr(eig_non_zero.shape, [ix \in IndexSet(eig_non_zero.shape) |->
              RAdd(V0_non.at[ix], RDiv(CC_non.at[ix], eig_non_zero.at[ix]))])
      zshape == [eigenvals.shape EXCEPT ![3] = Len(eig_zero_ind[3])]
      amplitude_zer ==
        Arr(zshape, [ix \in IndexSet(zshape) |->
              V0.at[[ix EXCEPT ![3] = eig_zero_ind[3][ix[3] + 1]]]])
      CC_zer ==
        Arr(zshape, [ix \in IndexSet(zshape) |->
              CC.at[[ix EXCEPT ![3] = eig_zero_ind[3][ix[3] + 1]]]])
      nshape == eig_non_zero.shape \o td_t.shape
      v_non ==
        Arr(nshape, [ix \in IndexSet(nshape) |->
              TSub(TScale(amplitude_non.at[Front(ix)],
                          NpExp(RMul(eig_non_zero.at[Front(ix)], td_t.at[<<Last(ix)>>]))),
                   TConst(RDiv(CC_non.at[Front(ix)], eig_non_zero.at[Front(ix)])))])
      vzshape == zshape \o td_t.shape
      v_zer ==
        Arr(vzshape, [ix \in IndexSet(vzshape) |->
              TConst(RAdd(RMul(CC_zer.at[Front(ix)], td_t.at[<<Last(ix)>>]),
                          amplitude_zer.at[Front(ix)]))])
  IN  IF Singular(eigenvectors) THEN Raise("LinAlgError")
      ELSE IF ~DeleteFits(eigenvals, eig_zero_ind, 2) THEN Raise("IndexError")
      ELSE IF ~InsertFits(v_non, eig_zero_ind[3], 2) THEN Raise("IndexError")
      ELSE [status |-> "ok", eigenvals |-> eigenvals, eigenvectors |-> eigenvectors,
            CC |-> CC, V0 |-> V0,
            v |-> NpInsert(v_non, eig_zero_ind[3], v_zer, 2)]

solve_matrix_exponential_source(matrix, td_n0, source, td_t, lapack) ==
  LET m == source_modes(matrix, td_n0, source, td_t, lapack)
  IN  IF m.status # "ok" THEN m
      ELSE IF ~EinsumFits(m.eigenvectors, m.v) THEN Raise("ValueError")
      ELSE Return(Einsum_klij_kljt_itkl(m.eigenvectors, m.v), m.eigenvals, m.eigenvectors)

\* ---------------------------------------------------------------- inputs
Modes == 0..(NS - 1)

\* eigenvectors e_j - e_(j+1) (j < NS-1) and e_(NS-1), as columns
LowerVectors ==
  [ij \in Modes \X Modes |->
     IF ij[1] = ij[2] THEN ROne ELSE IF ij[1] = ij[2] + 1 THEN RInt(-1) ELSE RZero]
\* eigenvectors e_0 and e_j - e_(j-1) (j > 0), as columns
UpperVectors ==
  [ij \in Modes \X Modes |->
     IF ij[1] = ij[2] THEN ROne ELSE IF ij[1] = ij[2] - 1 THEN RInt(-1) ELSE RZero]

\* the eigensystems one batch element is drawn from: eigenvalues 0, -1, ...,
\* -MaxEig in any order and multiplicity, two sets of eigenvectors
EigSystems ==
  {[w |-> w, v |-> v] : w \in [Modes -> {RInt(-x) : x \in 0..MaxEig}],
                        v \in {LowerVectors, UpperVectors}}

\* the eigensystems of the other batch elements: one of a closed system
\* (eigenvalue 0 in mode 0, columns of the matrix summing to 0) and one
\* without a zero eigenvalue
Backgrounds ==
  {[w |-> [j \in Modes |-> RInt(-(j % (MaxEig + 1)))], v |-> UpperVectors],
   [w |-> [j \in Modes |-> RInt(-(1 + (j % MaxEig)))], v |-> LowerVectors]}

\* batches in which one element p has any eigensystem of EigSystems and the
\* others share one of the Backgrounds
Batches(shape) ==
  {[b \in IndexSet(shape) |-> IF b = p THEN d ELSE bg] :
     p \in IndexSet(shape), d \in EigSystems, bg \in Backgrounds}

\* the matrix V * diag(w) * V^-1 with eigensystem d
MatrixOf(d) ==
  LET vinv == MatInv(d.v, NS)
  IN  [ij \in Modes \X Modes |->
         RSum([m \in Modes |->
                 RMul(RMul(d.v[<<ij[1], m>>], d.w[m]), vinv[<<m, ij[2]>>])], NS)]

\* the rate matrix [S, S, batch...] whose batch element b has eigensystem es[b]
RateMatrix(bshape, es) ==
  LET ms == [b \in IndexSet(bshape) |-> MatrixOf(es[b])]
      shp == <<NS, NS>> \o bshape
  IN  Arr(shp, [ix \in IndexSet(shp) |-> ms[SubSeq(ix, 3, Len(ix))][<<ix[1], ix[2]>>]])

Vec(f) == Arr(<<NS>>, [ix \in IndexSet(<<NS>>) |-> RInt(f[ix[1]])])
InitialVectors == {Vec([i \in Modes |-> IF i = 0 THEN 1 ELSE 0]),
                   Vec([i \in Modes |-> i + 1])}
SourceVectors == {Vec([i \in Modes |-> 0]),
                  Vec([i \in Modes |-> IF i = NS - 1 THEN 1 ELSE 2])}
Grid(a, b) == Arr(<<2>>, [ix \in IndexSet(<<2>>) |-> RInt(IF ix[1] = 0 THEN a ELSE b)])
TimeGrids == {Grid(a, MaxT) : a \in 0..(MaxT - 1)} \cup {Grid(MaxT, 0)}

\* the argument of a steady-state call of the given rank, cut from the 4-D
\* rate matrix m: rank 3 is m[:, :, k0, :], a lower rank fixes further
\* trailing indices at 0, a higher rank appends axes of length 1
MaxRank == 5
OfRank(m, rank, k0) ==
  LET shp == [a \in 1..rank |->
                IF a <= 2 THEN m.shape[a] ELSE IF a = 3 /\ rank = 3 THEN m.shape[4]
                ELSE IF a <= 4 THEN m.shape[a] ELSE 1]
      src(ix) == IF rank = 3 THEN <<ix[1], ix[2], k0, ix[3]>>
                 ELSE [a \in 1..4 |-> IF a <= rank THEN ix[a] ELSE 0]
  IN  Arr(shp, [ix \in IndexSet(shp) |-> m.at[src(ix)]])
\* the eigensystems of the batch elements of OfRank(m, rank, k0)
LapackOfRank(es, rank, k0) ==
  IF rank = 4 THEN es
  ELSE IF rank = 3 THEN [b \in IndexSet(<<NL>>) |-> es[<<k0>> \o b]]
  ELSE <<>>

\* ------------------------------------------------------- state machine
\* matrix: the rate matrix [NS, NS, NK, NL] the caller holds
\* lapack: for each batch element, the eigensystem np.linalg.eig returns
\* call:   the entry point called and its arguments
\* result: what the call returned or raised
VARIABLES pc, matrix, lapack, call, result
vars == <<pc, matrix, lapack, call, result>>

Init ==
  /\ pc = "idle"
  /\ lapack \in Batches(<<NK, NL>>)
  /\ matrix = RateMatrix(<<NK, NL>>, lapack)
  /\ call = [fn |-> "none"]
  /\ result = [status |-> "none"]

CallSolve ==
  /\ pc = "idle"
  /\ \E n0 \in InitialVectors, t \in TimeGrids :
       /\ call' = [fn |-> "solve_matrix_exponential", matrix |-> matrix,
                   td_n0 |-> n0, td_t |-> t, lapack |-> lapack]
       /\ result' = solve_matrix_exponential(matrix, n0, t, lapack)
  /\ pc' = "done"
  /\ UNCHANGED <<matrix, lapack>>

CallSteadyState ==
  /\ pc = "idle"
  /\ \E rank \in 0..MaxRank, k0 \in 0..(NK - 1) :
       /\ rank # 3 => k0 = 0
       /\ LET m == OfRank(matrix, rank, k0)
              es == LapackOfRank(lapack, rank, k0)
          IN  /\ call' = [fn |-> "solve_matrix_exponential_steady_state",
                          matrix |-> m, lapack |-> es]
              /\ result' = solve_matrix_exponential_steady_state(m, es)
  /\ pc' = "done"
  /\ UNCHANGED <<matrix, lapack>>

CallSource ==
  /\ pc = "idle"
  /\ \E n0 \in InitialVectors, src \in SourceVectors, t \in TimeGrids :
       /\ call' = [fn |-> "solve_matrix_exponential_source", matrix |-> matrix,
                   td_n0 |-> n0, source |-> src, td_t |-> t, lapack |-> lapack]
       /\ result' = solve_matrix_exponential_source(matrix, n0, src, t, lapack)
  /\ pc' = "done"
  /\ UNCHANGED <<matrix, lapack>>

Next == CallSolve \/ CallSteadyState \/ CallSource

Spec == Init /\ [][Next]_vars

\* ---------------------------------------------------------------- properties
Called(fn) == pc = "done" /\ call.fn = fn
Returned == result.status = "return"
BatchShape(m) == SubSeq(m.shape, 3, Len(m.shape))
Det0(A) == Det(A, Range0(NS), Range0(NS))
EigenvectorsInvertible == \A b \in DOMAIN call.lapack : Det0(call.lapack[b].v) # RZero
HasZeroEigenvalue(d) == \E j \in Modes : d.w[j] = RZero
\* the rate matrix of batch element b applied to the vector x
Applied(m, b, x) ==
  [i \in Modes |-> RSum([j \in Modes |-> RMul(m.at[<<i, j>> \o b], x[j])], NS)]
ZeroVector == [i \in Modes |-> RZero]
\* the projection V^-1 * x of a vector x (an array of shape [NS]) on the
\* eigenbasis of the eigensystem d
Projected(d, x) ==
  LET inv == MatInv(d.v, NS)
  IN  [j \in Modes |-> RSum([i \in Modes |-> RMul(inv[<<j, i>>], x.at[<<i>>])], NS)]

\* C1: when every eigenvector matrix is invertible, solve_matrix_exponential
\* returns, and at every time index whose time is 0 the population of every
\* batch element equals td_n0.
InitialConditionRecovery ==
  (Called("solve_matrix_exponential") /\ EigenvectorsInvertible) =>
    /\ Returned
    /\ \A ix \in IndexSet(result.pop.shape) :
         call.td_t.at[<<ix[2]>>] = RZero =>
           result.pop.at[ix] = TConst(call.td_n0.at[<<ix[1]>>])

InitialConditionRecoveryWitness ==
  /\ Called("solve_matrix_exponential")
  /\ Returned
  /\ call.td_t.at[<<1>>] = RZero
  /\ call.td_n0.at[<<1>>] # RZero
  /\ \E b \in DOMAIN call.lapack : call.lapack[b].w[0] # RZero

\* C6: when every column of the rate matrix sums to zero in every batch
\* element, the populations returned by solve_matrix_exponential sum, over
\* the states, to sum(td_n0) at every time index and in every batch element.
ClosedSystem(m) ==
  \A jb \in IndexSet(Tail(m.shape)) :
    RSum([i \in Modes |-> m.at[<<i>> \o jb]], NS) = RZero

PopulationConservation ==
  (Called("solve_matrix_exponential") /\ ClosedSystem(call.matrix)) =>
    /\ Returned
    /\ \A tb \in IndexSet(Tail(result.pop.shape)) :
         TSum([i \in Modes |-> result.pop.at[<<i>> \o tb]], NS)
           = TConst(RSum([i \in Modes |-> call.td_n0.at[<<i>>]], NS))

PopulationConservationWitness ==
  /\ Called("solve_matrix_exponential")
  /\ ClosedSystem(call.matrix)
  /\ Returned
  /\ \E b \in IndexSet(BatchShape(call.matrix)) :
       result.pop.at[<<0, 0>> \o b] # result.pop.at[<<0, 1>> \o b]

\* C9: for 3-D and 4-D input and every batch element, the steady-state
\* population is v0[m] times eigenvector m of that batch element, for a
\* mode m whose eigenvalue has the smallest absolute value there, where
\* v0 = eigenvectors^-1 * (1, 0, ..., 0).
FirstState == Arr(<<NS>>, [ix \in IndexSet(<<NS>>) |-> IF ix[1] = 0 THEN ROne ELSE RZero])

SteadyStateModeSelection ==
  (Called("solve_matrix_exponential_steady_state")
     /\ Len(call.matrix.shape) \in {3, 4}) =>
    /\ Returned
    /\ \A b \in IndexSet(BatchShape(call.matrix)) :
         LET d == call.lapack[b]
             v0 == Projected(d, FirstState)
         IN  \E m \in Modes :
               /\ \A j \in Modes : ~RLess(RAbs(d.w[j]), RAbs(d.w[m]))
               /\ \A i \in Modes :
                    result.pop.at[<<i>> \o b] = RMul(v0[m], d.v[<<i, m>>])

SteadyStateModeSelectionWitness ==
  /\ Called("solve_matrix_exponential_steady_state")
  /\ Returned
  /\ \E b \in IndexSet(BatchShape(call.matrix)) :
       /\ call.lapack[b].w[0] # RZero
       /\ call.lapack[b].w[NS - 1] = RZero
       /\ \E i \in Modes : result.pop.at[<<i>> \o b] # RZero

\* C3 as stated: the rate matrix of every batch element applied to the
\* returned steady-state population of that batch element is the zero vector.
SteadyStateFixedPoint ==
  (Called("solve_matrix_exponential_steady_state") /\ Returned) =>
    \A b \in IndexSet(BatchShape(call.matrix)) :
      Applied(call.matrix, b, [i \in Modes |-> result.pop.at[<<i>> \o b]]) = ZeroVector

\* C3 as amended: the same, for every batch element whose rate matrix has
\* an eigenvalue that is exactly zero.
SteadyStateFixedPointOfSingular ==
  (Called("solve_matrix_exponential_steady_state") /\ Returned) =>
    \A b \in IndexSet(BatchShape(call.matrix)) :
      HasZeroEigenvalue(call.lapack[b]) =>
        Applied(call.matrix, b, [i \in Modes |-> result.pop.at[<<i>> \o b]]) = ZeroVector

SteadyStateFixedPointWitness ==
  /\ Called("solve_matrix_exponential_steady_state")
  /\ Returned
  /\ \E b \in IndexSet(BatchShape(call.matrix)) :
       /\ HasZeroEigenvalue(call.lapack[b])
       /\ call.lapack[b].w[0] # RZero
       /\ \E i \in Modes : result.pop.at[<<i>> \o b] # RZero

\* C10: a steady-state call with a matrix of a rank other than 3 and 4
\* raises and returns no result.
RankMismatchRaises ==
  (Called("solve_matrix_exponential_steady_state")
     /\ Len(call.matrix.shape) \notin {3, 4}) =>
    /\ result.status = "raise"
    /\ "pop" \notin DOMAIN result

RankMismatchWitness ==
  /\ Called("solve_matrix_exponential_steady_state")
  /\ Len(call.matrix.shape) = 5
  /\ result.status = "raise"

\* C4: every entry point returns the eigenvalues as [S, batch...] and the
\* eigenvectors as [S, S, batch...], and returned eigenvectors[:, j, batch]
\* is an eigenvector of that batch element's matrix for the returned
\* eigenvalues[j, batch].
EigenOutputLayout ==
  (pc = "done" /\ Returned) =>
    LET bs == BatchShape(call.matrix)
    IN  /\ result.eigenvals.shape = <<NS>> \o bs
        /\ result.eigenvectors.shape = <<NS, NS>> \o bs
        /\ \A b \in IndexSet(bs), j \in Modes :
             Applied(call.matrix, b, [i \in Modes |-> result.eigenvectors.at[<<i, j>> \o b]])
               = [i \in Modes |-> RMul(result.eigenvals.at[<<j>> \o b],
                                       result.eigenvectors.at[<<i, j>> \o b])]

\* the call of the same entry point with the same vectors and times and the
\* matrix of batch element b alone
OneElementCall(b) ==
  LET bs == [a \in 1..Len(b) |-> 1]
      shp == <<NS, NS>> \o bs
      origin == [a \in 1..Len(b) |-> 0]
      m == Arr(shp, [ix \in IndexSet(shp) |-> call.matrix.at[<<ix[1], ix[2]>> \o b]])
      es == [o \in {origin} |-> call.lapack[b]]
  IN  IF call.fn = "solve_matrix_exponential"
      THEN solve_matrix_exponential(m, call.td_n0, call.td_t, es)
      ELSE IF call.fn = "solve_matrix_exponential_source"
      THEN solve_matrix_exponential_source(m, call.td_n0, call.source, call.td_t, es)
      ELSE solve_matrix_exponential_steady_state(m, es)

\* C5: for every entry point and every batch element, the batched call ends
\* as the call on that batch element alone does, and returns for that batch
\* element the populations the call on it alone returns.
BatchIndependence ==
  (pc = "done" /\ Len(call.matrix.shape) \in {3, 4}) =>
    \A b \in IndexSet(BatchShape(call.matrix)) :
      LET one == OneElementCall(b)
          origin == [a \in 1..Len(b) |-> 0]
          lead == SubSeq(result.pop.shape, 1, Len(result.pop.shape) - Len(b))
      IN  /\ result.status = one.status
          /\ Returned =>
               \A ix \in IndexSet(lead) : result.pop.at[ix \o b] = one.pop.at[ix \o origin]

\* C2: with a source of zeros, solve_matrix_exponential_source returns, and
\* returns the populations solve_matrix_exponential returns for the same
\* matrix, initial vector and times.
ZeroSourceReduction ==
  (Called("solve_matrix_exponential_source")
     /\ \A i \in Modes : call.source.at[<<i>>] = RZero) =>
    /\ Returned
    /\ result.pop =
         solve_matrix_exponential(call.matrix, call.td_n0, call.td_t, call.lapack).pop

\* the amplitude of mode j of batch element b at time index t, in the form
\* for a zero eigenvalue and in the form for a non-zero eigenvalue
LinearForm(b, j, t) ==
  LET d == call.lapack[b]
  IN  TConst(RAdd(RMul(Projected(d, call.source)[j], call.td_t.at[<<t>>]),
                  Projected(d, call.td_n0)[j]))
ExponentialForm(b, j, t) ==
  LET d == call.lapack[b]
      c == RDiv(Projected(d, call.source)[j], d.w[j])
  IN  TSub(TScale(RAdd(Projected(d, call.td_n0)[j], c),
                  NpExp(RMul(d.w[j], call.td_t.at[<<t>>]))),
           TConst(c))
Modes4 == IndexSet(<<NK, NL, NS>> \o call.td_t.shape)

\* C7: in solve_matrix_exponential_source the amplitude of mode j of batch
\* element (k, l) at time t handed to the reconstruction has the linear form
\* if eigenvals[k, l, j] is 0 and the exponential form otherwise.
PerElementZeroTreatment ==
  Called("solve_matrix_exponential_source") =>
    LET m == source_modes(call.matrix, call.td_n0, call.source, call.td_t, call.lapack)
    IN  m.status = "ok" =>
          \A ix \in Modes4 :
            /\ ix \in DOMAIN m.v.at
            /\ m.v.at[ix] =
                 IF call.lapack[<<ix[1], ix[2]>>].w[ix[3]] = RZero
                 THEN LinearForm(<<ix[1], ix[2]>>, ix[3], ix[4])
                 ELSE ExponentialForm(<<ix[1], ix[2]>>, ix[3], ix[4])

\* C8: in solve_matrix_exponential_source the reassembled array v has S
\* entries along the mode axis, the entry at position j is an evolved
\* amplitude of mode j, and the call returns populations of shape
\* [S, T, k, l].
ModeReassembly ==
  Called("solve_matrix_exponential_source") =>
    LET m == source_modes(call.matrix, call.td_n0, call.source, call.td_t, call.lapack)
    IN  /\ m.status = "ok"
        /\ m.v.shape = <<NK, NL, NS>> \o call.td_t.shape
        /\ \A ix \in Modes4 :
             \/ m.v.at[ix] = LinearForm(<<ix[1], ix[2]>>, ix[3], ix[4])
             \/ /\ call.lapack[<<ix[1], ix[2]>>].w[ix[3]] # RZero
                /\ m.v.at[ix] = ExponentialForm(<<ix[1], ix[2]>>, ix[3], ix[4])
        /\ Returned
        /\ result.pop.shape = <<NS>> \o call.td_t.shape \o <<NK, NL>>
====
